---- MODULE Spec2Model ----
(***************************************************************************)
(* Model of the live-broadcast subsystem of server.py: the                 *)
(* ConnectionManager (connections, symbols, interval), the per-connection  *)
(* websocket_endpoint handler and the stream_prices background task.       *)
(*                                                                         *)
(* asyncio tasks are cooperative: a task runs without interruption from    *)
(* one await to the next.  Every action below is therefore the code that   *)
(* runs between two awaits of one task, and the program counters name the  *)
(* await a task is suspended in.  Every await is taken as a point where    *)
(* the other tasks may run.                                                *)
(***************************************************************************)
EXTENDS Integers, Sequences, FiniteSets, TLC

\* Number of websocket objects that ever connect.  Each websocket object is
\* accepted once; a client that reconnects is a new websocket object.
\* Websocket k is the k-th one that connect() registers.
NumConns == 2

Conns == 1..NumConns

\* ConnectionManager.__init__: self.interval = 15
DefaultInterval == 15

\* ConnectionManager.__init__: self.symbols = ["^GSPC", "^NDX"]
\* A value held by manager.symbols: a JSON list (isList) with its items, or a
\* JSON value that is not iterable (null, a number): isList = FALSE.
DefaultSymbols == [isList |-> TRUE, items |-> <<"^GSPC", "^NDX">>]

VARIABLES
    connections,   \* manager.connections: set of registered websockets
    symbols,       \* manager.symbols
    interval,      \* manager.interval
    handler,       \* handler[ws]: position of websocket_endpoint(ws)
    loops          \* loops[k]: the stream_prices task created by connect(k)

vars == <<connections, symbols, interval, handler, loops>>

----------------------------------------------------------------------------
(* Inbound messages.                                                       *)

\* Values an "interval" field is given in the model.  t = "int": the JSON
\* integer n; t = "str": a JSON string holding the decimal digits of n;
\* t = "junk": a JSON string that holds no integer (n unused).
IntervalValues ==
    { [t |-> "int", n |-> 5], [t |-> "int", n |-> 0], [t |-> "int", n |-> -1],
      [t |-> "str", n |-> 5], [t |-> "junk", n |-> 0] }

\* Values a "symbols" field is given in the model: a list, or JSON null.
SymbolsValues ==
    { [isList |-> TRUE, items |-> <<"AAPL">>],
      [isList |-> FALSE, items |-> <<>>] }

\* A text frame.  kind = "invalid": not JSON; kind = "nonobject": JSON, but
\* not an object (a list, a number); kind = "object": a JSON object with its
\* "type" and its optional "symbols" and "interval" fields.
NoField == [t |-> "int", n |-> 0]
NoSymbols == [isList |-> TRUE, items |-> <<>>]

ObjectMessages ==
    { [kind |-> "object", type |-> ty, hasSymbols |-> hs, symbols |-> sv,
       hasInterval |-> hi, interval |-> iv] :
        ty \in {"subscribe", "other"},
        hs \in BOOLEAN, sv \in SymbolsValues \cup {NoSymbols},
        hi \in BOOLEAN, iv \in IntervalValues }

Messages ==
    { m \in ObjectMessages :
        /\ (~m.hasSymbols => m.symbols = NoSymbols)
        /\ (m.hasSymbols => m.symbols \in SymbolsValues)
        /\ (~m.hasInterval => m.interval = NoField) }
    \cup
    { [kind |-> k, type |-> "other", hasSymbols |-> FALSE, symbols |-> NoSymbols,
       hasInterval |-> FALSE, interval |-> NoField] : k \in {"invalid", "nonobject"} }

\* json.loads(msg) followed by data.get: raises for a frame that is not JSON
\* (JSONDecodeError) and for JSON that is not an object (AttributeError).
Decodes(m) == m.kind = "object"

\* int(x): defined for an integer and for a string of digits.
IntConverts(v) == v.t \in {"int", "str"}
IntOf(v) == v.n

\* ApplySubscribe with data.get("symbols") and data.get("interval") given no
\* default: an absent field reads as None.
ApplySubscribeNoDefault(st, m) ==
    IF m.type # "subscribe"
    THEN [symbols |-> st.symbols, interval |-> st.interval, raised |-> FALSE]
    ELSE LET syms == IF m.hasSymbols THEN m.symbols
                     ELSE [isList |-> FALSE, items |-> <<>>]
         IN  IF m.hasInterval /\ IntConverts(m.interval)
             THEN [symbols |-> syms, interval |-> IntOf(m.interval), raised |-> FALSE]
             ELSE [symbols |-> syms, interval |-> st.interval, raised |-> TRUE]

\* ApplySubscribe without the test of line 112: the fields of any object
\* are applied.
ApplySubscribeAnyType(st, m) ==
    LET syms == IF m.hasSymbols THEN m.symbols ELSE st.symbols
        ival == IF m.hasInterval THEN m.interval
                ELSE [t |-> "int", n |-> st.interval]
    IN  IF IntConverts(ival)
        THEN [symbols |-> syms, interval |-> IntOf(ival), raised |-> FALSE]
        ELSE [symbols |-> syms, interval |-> st.interval, raised |-> TRUE]

\* Lines 112-114 on a decoded object, from the subscription st =
\* [symbols, interval]: the subscription after, and whether int() raised.
\* Line 113 has run before line 114 raises.
ApplySubscribe(st, m) ==
    IF m.type # "subscribe"
    THEN [symbols |-> st.symbols, interval |-> st.interval, raised |-> FALSE]
    ELSE LET syms == IF m.hasSymbols THEN m.symbols ELSE st.symbols
             ival == IF m.hasInterval THEN m.interval
                     ELSE [t |-> "int", n |-> st.interval]
         IN  IF IntConverts(ival)
             THEN [symbols |-> syms, interval |-> IntOf(ival), raised |-> FALSE]
             ELSE [symbols |-> syms, interval |-> st.interval, raised |-> TRUE]

----------------------------------------------------------------------------
(* ConnectionManager.                                                      *)

\* SpawnsLoop with the size tested as it was before the add.
SpawnsLoopBeforeAdd(conns) == Cardinality(conns) = 0

\* SpawnsLoop with the task created when a second websocket registers.
SpawnsLoopOnSecond(conns) == Cardinality(conns) = 2

\* connect, line 75: the size test that decides whether a task is created.
SpawnsLoop(conns) == Cardinality(conns) = 1

\* disconnect that empties the registry (self.connections.clear()).
disconnectClear(conns, ws) == {}

\* disconnect with the membership test inverted.
disconnectInverted(conns, ws) == IF ws \notin conns THEN conns \ {ws} ELSE conns

\* disconnect(websocket), lines 78-80.
disconnect(conns, ws) == IF ws \in conns THEN conns \ {ws} ELSE conns

\* json.dumps({"type": "quotes", "data": updates}), line 92.
json_dumps(updates) == [type |-> "quotes", data |-> updates]

\* msg before line 92 has run.
NoMsg == [type |-> "none", data |-> <<>>]

\* A stream_prices task that does not exist (yet).  The fields of a task:
\*   pc       "none", "spawned" (created, not yet run), the await it is
\*            suspended in ("fetch", "send", "sleep"), "done" (returned) or
\*            "crashed" (ended by an exception);
\*   syms     the list the for statement of line 86 iterates;
\*   updates  the list updates, which line 92 serialises into msg;
\*   fails    the positions of syms for which the quote source failed;
\*   snap     list(self.connections) of line 93, todo its part not yet visited,
\*            cur the websocket whose send_text is awaited;
\*   msg      the text of line 92, which every send_text of the cycle is given;
\*   got      the websockets whose send_text returned in this cycle,
\*   sent     the texts those websockets were sent;
\*   failed   those whose send_text raised in this cycle;
\*   dur      the argument of asyncio.sleep;
\*   start    manager.interval as it was when the cycle read manager.symbols
\*            (the code keeps no copy of it: the field is there to compare
\*            dur with).
NoLoop ==
    [pc |-> "none", syms |-> <<>>, updates |-> <<>>, snap |-> {}, todo |-> {},
     fails |-> {}, cur |-> {}, got |-> {}, failed |-> {}, dur |-> DefaultInterval,
     msg |-> NoMsg, sent |-> {}, start |-> DefaultInterval]

\* asyncio.create_task(self.stream_prices()): the task exists and has not run.
SpawnedLoop == [NoLoop EXCEPT !.pc = "spawned"]

Active(l) == l.pc \in {"spawned", "fetch", "send", "sleep"}

Init ==
    /\ connections = {}
    /\ symbols = DefaultSymbols
    /\ interval = DefaultInterval
    /\ handler = [ws \in Conns |-> "new"]
    /\ loops = [k \in Conns |-> NoLoop]

----------------------------------------------------------------------------
(* fetch_quote and stream_prices.                                          *)

\* What yf.download does for one call: a non-empty frame, an empty frame,
\* or an exception.
FetchOutcomes == {"data", "empty", "raise"}

\* fetch_quote without the else branch of line 60: an empty frame yields an
\* entry that holds the symbol alone.
fetch_quote_unmarked(symbol, outcome) ==
    IF outcome = "data"
    THEN [symbol |-> symbol, hasPrice |-> TRUE, hasError |-> FALSE]
    ELSE IF outcome = "empty"
    THEN [symbol |-> symbol, hasPrice |-> FALSE, hasError |-> FALSE]
    ELSE [symbol |-> symbol, hasPrice |-> FALSE, hasError |-> TRUE]

\* fetch_quote(symbol), lines 46-63.  The entry holds "price", "currency"
\* and "timestamp" (hasPrice) or "error" (hasError).
fetch_quote(symbol, outcome) ==
    IF outcome = "data"
    THEN [symbol |-> symbol, hasPrice |-> TRUE, hasError |-> FALSE]
    ELSE [symbol |-> symbol, hasPrice |-> FALSE, hasError |-> TRUE]

\* Line 99: await asyncio.sleep(self.interval), the interval read there.
BeginSleep(l, ival) ==
    [l EXCEPT !.pc = "sleep", !.syms = <<>>, !.updates = <<>>, !.fails = {},
              !.cur = {}, !.todo = {}, !.dur = ival, !.msg = NoMsg,
              !.start = DefaultInterval]

\* Lines 93-95 and 99: the for statement over the copy goes on to its next
\* websocket and awaits its send_text, or ends, and the task sleeps.  The
\* order of list(set) is not fixed: any websocket left may be the next.
NextSend(l, ival) ==
    IF l.todo = {}
    THEN {BeginSleep(l, ival)}
    ELSE {[l EXCEPT !.pc = "send", !.cur = {ws}, !.todo = l.todo \ {ws}] :
            ws \in l.todo}

\* Lines 92-93: msg is serialised from updates, the registry is copied.
BeginSendPass(l, conns, ival) ==
    NextSend([l EXCEPT !.msg = json_dumps(l.updates), !.snap = conns,
                       !.todo = conns, !.got = {}, !.failed = {},
                       !.sent = {}], ival)

\* BeginCycle with "while True": the registry is not tested.
BeginCycleNoExit(conns, syms, ival) ==
    IF ~syms.isList
    THEN {[NoLoop EXCEPT !.pc = "crashed"]}
    ELSE IF syms.items = <<>>
    THEN BeginSendPass([NoLoop EXCEPT !.start = ival], conns, ival)
    ELSE {[NoLoop EXCEPT !.pc = "fetch", !.syms = syms.items, !.start = ival]}

\* Lines 84-87, the top of the while statement: the task returns when the
\* registry is empty; otherwise iter(self.symbols) is taken, which raises
\* TypeError for a value that is not iterable, and the first fetch_quote is
\* awaited (with no symbol the task goes on to line 92).
BeginCycle(conns, syms, ival) ==
    IF conns = {}
    THEN {[NoLoop EXCEPT !.pc = "done"]}
    ELSE IF ~syms.isList
    THEN {[NoLoop EXCEPT !.pc = "crashed"]}
    ELSE IF syms.items = <<>>
    THEN BeginSendPass([NoLoop EXCEPT !.start = ival], conns, ival)
    ELSE {[NoLoop EXCEPT !.pc = "fetch", !.syms = syms.items, !.start = ival]}

\* NextSymbol with the list indexed through manager.symbols at every step
\* (for i in range(len(...)): s = self.symbols[i]).
NextSymbolReread(l, cursyms) ==
    LET i == Len(l.updates) + 1
    IN  IF cursyms.isList /\ i <= Len(cursyms.items)
        THEN cursyms.items[i] ELSE l.syms[i]

\* Line 86: the symbol the for statement yields next.  The iterator holds
\* the list object it was created from (l.syms); an assignment to
\* manager.symbols (cursyms) binds another object and does not reach it.
NextSymbol(l, cursyms) == l.syms[Len(l.updates) + 1]

\* The task created by connect(k) runs for the first time, or asyncio.sleep
\* returns: the while condition of line 84 is evaluated.
StreamCheck(k) ==
    /\ loops[k].pc \in {"spawned", "sleep"}
    /\ \E nl \in BeginCycle(connections, symbols, interval) :
           loops' = [loops EXCEPT ![k] = nl]
    /\ UNCHANGED <<connections, symbols, interval, handler>>

\* await fetch_quote(s) returns, lines 87-88: the quote is appended and the
\* for statement goes to the next symbol of the list it iterates, or ends.
\* fetch_quote itself awaits nothing (yf.download blocks), so an event loop
\* runs no other task during it; the model lets the other tasks run there as
\* at every await, which adds behaviours and removes none.
StreamFetch(k) ==
    /\ loops[k].pc = "fetch"
    /\ \E outcome \in FetchOutcomes :
         LET l == loops[k]
             i == Len(l.updates) + 1
             nl == [l EXCEPT !.updates =
                                Append(@, fetch_quote(NextSymbol(l, symbols), outcome)),
                             !.fails = IF outcome = "data" THEN @ ELSE @ \cup {i}]
         IN  IF i < Len(l.syms)
             THEN loops' = [loops EXCEPT ![k] = nl]
             ELSE \E sl \in BeginSendPass(nl, connections, interval) :
                      loops' = [loops EXCEPT ![k] = sl]
    /\ UNCHANGED <<connections, symbols, interval, handler>>

\* Payload with the entries filtered by the subscription at every send
\* (the text built inside the for statement of line 93).
PayloadFiltered(l, cursyms) ==
    LET Subscribed(u) ==
            cursyms.isList /\
            \E i \in 1..Len(cursyms.items) : cursyms.items[i] = u.symbol
    IN  json_dumps(SelectSeq(l.updates, Subscribed))

\* Line 95: the text send_text is given, the msg of line 92, whatever
\* manager.symbols (cursyms) holds by then.
Payload(l, cursyms) == l.msg

\* What await ws.send_text(msg) can do: return, or raise.  It raises once the
\* websocket's handler has ended (the transport is closed).
SendOutcomes(ws) ==
    IF handler[ws] = "listening" THEN {"sent", "raise"} ELSE {"raise"}

\* StreamSend with the for statement of line 93 over the registry itself
\* instead of a copy: the websockets still to visit are those registered
\* now and not yet visited.
StreamSendLive(k) ==
    /\ loops[k].pc = "send"
    /\ \E ws \in loops[k].cur : \E outcome \in SendOutcomes(ws) :
         LET l == loops[k]
             conns == IF outcome = "raise" THEN disconnect(connections, ws)
                      ELSE connections
             nl == IF outcome = "raise"
                   THEN [l EXCEPT !.failed = @ \cup {ws}]
                   ELSE [l EXCEPT !.got = @ \cup {ws},
                                  !.sent = @ \cup {Payload(l, symbols)}]
             live == [nl EXCEPT !.todo = conns \ (nl.got \cup nl.failed)]
         IN  /\ connections' = conns
             /\ \E sl \in NextSend(live, interval) :
                    loops' = [loops EXCEPT ![k] = sl]
    /\ UNCHANGED <<symbols, interval, handler>>

\* await ws.send_text(msg) ends, lines 94-97: on an exception the websocket
\* is deregistered; then the for statement goes on.
StreamSend(k) ==
    /\ loops[k].pc = "send"
    /\ \E ws \in loops[k].cur : \E outcome \in SendOutcomes(ws) :
         LET l == loops[k]
             conns == IF outcome = "raise" THEN disconnect(connections, ws)
                      ELSE connections
             nl == IF outcome = "raise"
                   THEN [l EXCEPT !.failed = @ \cup {ws}]
                   ELSE [l EXCEPT !.got = @ \cup {ws},
                                  !.sent = @ \cup {Payload(l, symbols)}]
         IN  /\ connections' = conns
             /\ \E sl \in NextSend(nl, interval) :
                    loops' = [loops EXCEPT ![k] = sl]
    /\ UNCHANGED <<symbols, interval, handler>>

----------------------------------------------------------------------------
(* websocket_endpoint.                                                     *)

\* Lines 107 and 72-76: accept returns, the websocket is added and, when it
\* is then the only one, a stream_prices task is created; the handler goes
\* on to await receive_text.
Connect(ws) ==
    /\ handler[ws] = "new"
    /\ \A j \in Conns : j < ws => handler[j] # "new"
    /\ connections' = connections \cup {ws}
    /\ loops' = IF SpawnsLoop(connections')
                THEN [loops EXCEPT ![ws] = SpawnedLoop]
                ELSE loops
    /\ handler' = [handler EXCEPT ![ws] = "listening"]
    /\ UNCHANGED <<symbols, interval>>

\* Lines 110-114: receive_text returns the frame m.  An exception of
\* json.loads, data.get or int is not a WebSocketDisconnect: it leaves the
\* handler without running line 116.
ReceiveText(ws, m) ==
    /\ handler[ws] = "listening"
    /\ IF ~Decodes(m)
       THEN /\ handler' = [handler EXCEPT ![ws] = "failed"]
            /\ UNCHANGED <<symbols, interval>>
       ELSE LET r == ApplySubscribe([symbols |-> symbols, interval |-> interval], m)
            IN  /\ symbols' = r.symbols
                /\ interval' = r.interval
                /\ handler' = [handler EXCEPT ![ws] =
                                  IF r.raised THEN "failed" ELSE "listening"]
    /\ UNCHANGED <<connections, loops>>

\* ReceiveDisconnect with a disconnect that puts the subscription back to
\* the values of __init__ when the registry empties.
ReceiveDisconnectReset(ws) ==
    /\ handler[ws] = "listening"
    /\ connections' = disconnect(connections, ws)
    /\ handler' = [handler EXCEPT ![ws] = "closed"]
    /\ IF connections' = {}
       THEN symbols' = DefaultSymbols /\ interval' = DefaultInterval
       ELSE UNCHANGED <<symbols, interval>>
    /\ UNCHANGED loops

\* Lines 115-116: receive_text raises WebSocketDisconnect.
ReceiveDisconnect(ws) ==
    /\ handler[ws] = "listening"
    /\ connections' = disconnect(connections, ws)
    /\ handler' = [handler EXCEPT ![ws] = "closed"]
    /\ UNCHANGED <<symbols, interval, loops>>

----------------------------------------------------------------------------

LoopStep(k) == StreamCheck(k) \/ StreamFetch(k) \/ StreamSend(k)

Next ==
    \/ \E ws \in Conns : Connect(ws)
    \/ \E ws \in Conns : \E m \in Messages : ReceiveText(ws, m)
    \/ \E ws \in Conns : ReceiveDisconnect(ws)
    \/ \E k \in Conns : StreamCheck(k)
    \/ \E k \in Conns : StreamFetch(k)
    \/ \E k \in Conns : StreamSend(k)

Spec == Init /\ [][Next]_vars

\* The event loop resumes every task whose await has completed, and every
\* fetch, send and sleep completes.
FairSpec == Spec /\ \A k \in Conns : WF_vars(LoopStep(k))

----------------------------------------------------------------------------
(* Properties.                                                             *)

ActiveLoops == {k \in Conns : Active(loops[k])}

\* C1: at most one stream_prices instance is active (spawned and not yet
\* exited) at any time.
AtMostOneLoop == Cardinality(ActiveLoops) <= 1

MalformedDeregisters ==
    [][\A ws \in Conns :
          (handler[ws] = "listening" /\ handler'[ws] = "failed") =>
              /\ ws \notin connections'
              /\ connections' \ {ws} = connections \ {ws}]_vars

InCycle(l) == l.pc \in {"fetch", "send"}

\* C4: a websocket whose send failed in a cycle is out of the registry from
\* then on, every websocket of the cycle's copy of the registry either got
\* the message or failed, and a send that ends leaves the task in its send
\* pass or asleep.
SendFailureIsolated ==
    /\ [](\A k \in Conns :
            /\ loops[k].failed \cap connections = {}
            /\ loops[k].pc = "sleep" =>
                   /\ loops[k].got \cup loops[k].failed = loops[k].snap
                   /\ loops[k].got \cap loops[k].failed = {})
    /\ [][\A k \in Conns :
            loops[k].pc = "send" => loops'[k].pc \in {"send", "sleep"}]_vars

\* A cycle has ended in which one send failed and another succeeded.
SendFailureIsolatedWitness ==
    \E k \in Conns :
        /\ loops[k].pc = "sleep"
        /\ loops[k].failed # {}
        /\ loops[k].got # {}

\* C5: the symbols of the entries fetched in a cycle are, entry for entry,
\* the symbols read at the start of the cycle (l.syms), whatever
\* manager.symbols holds by then; the message sent has one entry for each.
MessageSymbolsAreCycleStart ==
    \A k \in Conns :
        LET l == loops[k]
        IN  InCycle(l) =>
              /\ Len(l.updates) <= Len(l.syms)
              /\ \A i \in 1..Len(l.updates) : l.updates[i].symbol = l.syms[i]
              /\ l.pc = "send" => Len(l.updates) = Len(l.syms)

\* A subscribe message replaced the symbols while the cycle was suspended in
\* a fetch, and the cycle has fetched an entry.
MessageSymbolsWitness ==
    \E k \in Conns :
        /\ loops[k].pc = "fetch"
        /\ Len(loops[k].updates) = 1
        /\ symbols.isList
        /\ symbols.items # loops[k].syms

\* C6: the entry of a symbol for which the quote source failed carries the
\* error marker and no price, every other entry carries a price; the
\* message has an entry for every symbol, and a fetch that ends leaves the
\* task in its cycle.
FetchFailureIsolated ==
    /\ [](\A k \in Conns :
            LET l == loops[k]
            IN  InCycle(l) =>
                  /\ l.fails \subseteq 1..Len(l.updates)
                  /\ \A i \in 1..Len(l.updates) :
                        /\ l.updates[i].hasError <=> i \in l.fails
                        /\ l.updates[i].hasPrice <=> i \notin l.fails
                  /\ l.pc = "send" => Len(l.updates) = Len(l.syms))
    /\ [][\A k \in Conns :
            loops[k].pc = "fetch" =>
                /\ loops'[k].pc \in {"fetch", "send", "sleep"}
                /\ loops'[k].pc = "fetch" =>
                       Len(loops'[k].updates) \in
                           {Len(loops[k].updates), Len(loops[k].updates) + 1}]_vars

\* A message is being sent that has an error entry and a price entry.
FetchFailureWitness ==
    \E k \in Conns :
        /\ loops[k].pc = "send"
        /\ loops[k].fails # {}
        /\ \E i \in 1..Len(loops[k].updates) : i \notin loops[k].fails

\* The decodable frames whose type is "subscribe".
SubscribeMessages == {m \in Messages : Decodes(m) /\ m.type = "subscribe"}

\* C7: a subscribe message without "symbols" leaves symbols as it was, one
\* without "interval" leaves interval as it was, and the same message
\* applied again to the subscription it produced produces that subscription.
\* (A step of ReceiveText leaves loops unchanged: the test of that comes
\* first, so that the messages are tried on the steps of handlers only.)
PartialSubscribe ==
    [][(loops' = loops /\ connections' = connections) =>
       \A ws \in Conns : \A m \in SubscribeMessages :
          (handler[ws] = "listening" /\ ReceiveText(ws, m)) =>
              LET again == ApplySubscribe(
                               [symbols |-> symbols', interval |-> interval'], m)
              IN  /\ ~m.hasSymbols => symbols' = symbols
                  /\ ~m.hasInterval => interval' = interval
                  /\ (~m.hasSymbols \/ ~m.hasInterval) =>
                         /\ again.symbols = symbols'
                         /\ again.interval = interval']_vars

\* Only messages without "symbols" have been applied, and one of them has
\* changed the interval.
PartialSubscribeWitness ==
    /\ symbols = DefaultSymbols
    /\ interval # DefaultInterval

\* C8: the polling interval is strictly positive in every reachable state.
IntervalPositive == interval > 0

\* C9: a task that evaluates the while condition with the registry empty
\* returns without fetching; a task that has returned stays so, and with no
\* task active none becomes active unless a connection registers; and a
\* task that is active while the registry is empty returns, unless a
\* connection registers first.
LoopStopsWhenEmpty ==
    /\ [][\A k \in Conns :
            (loops[k].pc \in {"spawned", "sleep"} /\ loops'[k] # loops[k]
                /\ connections = {}) => loops'[k].pc = "done"]_vars
    /\ [][\A k \in Conns : loops[k].pc = "done" => loops'[k].pc = "done"]_vars
    /\ [][(ActiveLoops = {} /\ ActiveLoops' # {}) =>
             \E ws \in Conns : ws \in connections' \ connections]_vars
    /\ \A k \in Conns :
           (Active(loops[k]) /\ connections = {})
               ~> (~Active(loops[k]) \/ connections # {})

\* A task has returned, the registry is empty and no task is active.
LoopStopsWitness ==
    /\ connections = {}
    /\ ActiveLoops = {}
    /\ \E k \in Conns : loops[k].pc = "done"

\* The send_text awaited for ws returns.
Delivered(ws) ==
    \E k \in Conns :
        /\ loops[k].pc = "send"
        /\ loops[k].cur = {ws}
        /\ ws \in loops'[k].got

\* C10: a connection that stays registered is sent a message again and
\* again: it is deregistered infinitely often (never, for one that stays),
\* or a send to it returns infinitely often.
RegisteredKeepsReceiving ==
    \A ws \in Conns :
        \/ []<>(ws \notin connections)
        \/ []<><<Delivered(ws)>>_vars

\* The decodable frames whose type is not "subscribe" (a missing type
\* included).
OtherMessages == {m \in Messages : Decodes(m) /\ m.type # "subscribe"}

\* C11: a decoded object whose type is not "subscribe" leaves symbols and
\* interval as they were, whatever fields it carries, leaves the handler
\* listening and leaves the registry as it was.
\* (A step of ReceiveText leaves loops unchanged: the test of that comes
\* first, so that the messages are tried on the steps of handlers only.)
OtherTypeIgnored ==
    [][loops' = loops =>
       \A ws \in Conns : \A m \in OtherMessages :
          (handler[ws] = "listening" /\ ReceiveText(ws, m)) =>
              /\ symbols' = symbols
              /\ interval' = interval
              /\ handler'[ws] = "listening"
              /\ connections' = connections]_vars

\* A handler is listening, as it is before and after a frame it ignores,
\* while the subscription differs from the fields the ignored frames carry
\* and a task is in a cycle.
OtherTypeIgnoredWitness ==
    /\ \E ws \in Conns : handler[ws] = "listening" /\ ws \in connections
    /\ symbols = DefaultSymbols
    /\ interval = DefaultInterval
    /\ \E k \in Conns : loops[k].pc = "send"

\* C12: the websockets a cycle sends to all receive one and the same text,
\* the one serialised from the cycle's entries.
OnePayloadPerCycle ==
    \A k \in Conns :
        LET l == loops[k]
        IN  /\ Cardinality(l.sent) <= 1
            /\ l.got # {} => l.sent # {}
            /\ l.pc = "send" => l.sent \subseteq {json_dumps(l.updates)}

\* A cycle has sent its text to two websockets, and the subscription no
\* longer holds the symbols of that text.
OnePayloadWitness ==
    \E k \in Conns :
        /\ loops[k].pc = "sleep"
        /\ Cardinality(loops[k].got) = 2
        /\ \E p \in loops[k].sent :
               symbols # [isList |-> TRUE,
                          items |-> [i \in 1..Len(p.data) |-> p.data[i].symbol]]

\* C13: a cycle keeps the symbols and the interval it started with, and the
\* duration it sleeps is the interval that was current when it read its
\* symbols.
SleepsCycleStartInterval ==
    [][\A k \in Conns :
          /\ (InCycle(loops[k]) /\ InCycle(loops'[k])) =>
                 /\ loops'[k].syms = loops[k].syms
                 /\ loops'[k].start = loops[k].start
          /\ (InCycle(loops[k]) /\ loops'[k].pc = "sleep") =>
                 loops'[k].dur = loops[k].start]_vars

\* C14: a task stops only by finding the registry empty at the start of a
\* cycle: a task that was active and is no longer has returned from the
\* while statement, with the registry empty.
LoopStopsOnlyWhenEmpty ==
    [][\A k \in Conns :
          (Active(loops[k]) /\ ~Active(loops'[k])) =>
              /\ loops'[k].pc = "done"
              /\ connections = {}]_vars

\* The send_text awaited for ws by task k raises.
SendFails(k, ws) ==
    /\ loops[k].pc = "send"
    /\ loops[k].cur = {ws}
    /\ ws \in loops'[k].failed

\* C15: either disconnect path leaves ws out of the registry and every other
\* member in it, whether or not the other path ran before (the second call
\* removes nothing), and raises nothing: the handler ends closed, the task
\* goes on with its send pass; a websocket whose handler has closed, or
\* whose send failed in the current cycle, is not in the registry.
DeregistrationIdempotent ==
    /\ [](\A ws \in Conns :
            (handler[ws] = "closed" \/ \E k \in Conns : ws \in loops[k].failed)
                => ws \notin connections)
    /\ [][\A ws \in Conns :
            /\ (handler[ws] = "listening" /\ handler'[ws] = "closed") =>
                   connections' = connections \ {ws}
            /\ \A k \in Conns :
                   SendFails(k, ws) =>
                       /\ connections' = connections \ {ws}
                       /\ loops'[k].pc \in {"send", "sleep"}
                       /\ handler' = handler]_vars

\* Both paths have run for one websocket, and another is still registered.
DeregistrationWitness ==
    \E ws \in Conns :
        /\ handler[ws] = "closed"
        /\ \E k \in Conns : ws \in loops[k].failed
        /\ connections # {}

\* C16: in a behaviour in which manager.symbols always holds a list, a task
\* is active (spawned and not exited) whenever the registry is non-empty.
ListSymbolsKeepLoop ==
    [](symbols.isList) => [](connections # {} => ActiveLoops # {})

\* The symbols have been replaced by another list, a task has returned after
\* the registry emptied, and a later task serves the registry.
ListSymbolsWitness ==
    /\ symbols.isList
    /\ symbols # DefaultSymbols
    /\ \A k \in Conns : loops[k].pc # "crashed"
    /\ connections # {}
    /\ \E k \in Conns : loops[k].pc = "done"
    /\ ActiveLoops # {}

\* The websockets a cycle of l has attempted, is attempting and has yet to
\* attempt partition the copy of the registry it took.
VisitsCopy(l) ==
    /\ l.got \cup l.failed \cup l.cur \cup l.todo = l.snap
    /\ l.got \cap l.failed = {}
    /\ (l.got \cup l.failed) \cap (l.cur \cup l.todo) = {}
    /\ l.cur \cap l.todo = {}

\* A step of a send pass keeps its copy, and the send that ends is counted
\* for the websocket that was awaited.
KeepsCopy(l, nl) ==
    (l.pc = "send" /\ nl # l) =>
        /\ nl.pc \in {"send", "sleep"}
        /\ nl.snap = l.snap
        /\ nl.got \cup nl.failed = l.got \cup l.failed \cup l.cur

\* C17 as stated: a send pass attempts exactly the websockets of its copy
\* of the registry, each once, and every websocket it starts a send to is in
\* the registry at that moment.
SendsToRegisteredCopy ==
    /\ [](\A k \in Conns : loops[k].pc = "send" => VisitsCopy(loops[k]))
    /\ [][\A k \in Conns :
            /\ KeepsCopy(loops[k], loops'[k])
            /\ (loops'[k].pc = "send" /\ loops'[k].cur # loops[k].cur) =>
                   loops'[k].cur \subseteq connections']_vars

\* C17 as amended: a send pass attempts exactly the websockets of its copy
\* of the registry, each once, whether or not they are still registered.
SendsToCopy ==
    /\ [](\A k \in Conns :
            /\ loops[k].pc = "send" => VisitsCopy(loops[k])
            /\ loops[k].pc = "sleep" =>
                   loops[k].got \cup loops[k].failed = loops[k].snap)
    /\ [][\A k \in Conns : KeepsCopy(loops[k], loops'[k])]_vars

\* During a send pass a websocket has registered that is not in the copy,
\* and the websocket being sent to is no longer registered.
SendsToCopyWitness ==
    \E k \in Conns :
        /\ loops[k].pc = "send"
        /\ connections \ loops[k].snap # {}
        /\ loops[k].cur \cap connections = {}

\* C18: symbols and interval change only in a step of a handler applying a
\* subscribe message (connect, disconnect, a send failure, the return and
\* the creation of a task leave them as they are), and a task that begins
\* a cycle polls the values they hold then, whoever wrote them.
SubscriptionOnlyBySubscribe ==
    [][/\ (symbols' # symbols \/ interval' # interval) =>
              \E ws \in Conns : \E m \in SubscribeMessages :
                  ReceiveText(ws, m)
       /\ \A k \in Conns :
              (~InCycle(loops[k]) /\ loops'[k].pc = "fetch") =>
                  /\ loops'[k].syms = symbols.items
                  /\ loops'[k].start = interval]_vars

\* A task returned on an empty registry, and a task created afterwards is
\* fetching the subscribed symbols, not those of __init__.
SubscriptionWitness ==
    \E k, j \in Conns :
        /\ loops[k].pc = "done"
        /\ connections = {j}
        /\ loops[j].pc = "fetch"
        /\ loops[j].syms = symbols.items
        /\ loops[j].start = interval
        /\ symbols # DefaultSymbols
        /\ interval # DefaultInterval

====
